---- MODULE Spec2Model ----
(***************************************************************************)
(* Mini Seller Console: the App component (application state owner), the   *)
(* LeadDetailPanel and LeadsList components, the browser's localStorage    *)
(* and the asynchronous continuations (timers, fetch) that run between UI  *)
(* events.  React 18 batches the state updates of one event handler or one *)
(* continuation, so each handler segment between two awaits is one action; *)
(* an effect that the segment triggers runs before the next event.         *)
(***************************************************************************)
EXTENDS Integers, Sequences, FiniteSets, TLC

(* ------------------------------ bounds -------------------------------- *)
MaxOpps == 2
MaxPendingSelect == 1
MaxPendingSave == 1
MaxPendingNav == 1

(* ------------------------------ data ---------------------------------- *)
\* null for selectedLead (useState<Lead | null>(null))
NoLead == [id |-> 0]
\* null for error (useState<string | null>(null))
NoError == "null"
\* {} for errors (useState<{ email?: string }>({}))
NoFieldError == "none"
InvalidEmailMsg == "Please enter a valid email address"
SaveFailedMsg == "Failed to save changes. Please try again."

LeadStatus == {"New", "Contacted", "Qualified"}

\* e-mail addresses are sequences of characters
EmailAB == <<"a", "@", "b", ".", "c">>
EmailXY == <<"x", "@", "y", ".", ".", "z">>
EmailNoDot == <<"a", "@", "b", "c">>
EmailNoHost == <<"a", "@", ".", "c">>
EmailSpace == <<"a", " ", "@", "b", ".", "c">>
EmailTwoAt == <<"a", "@", "@", "b", ".", "c">>

\* values typed into the e-mail input of the panel
EmailInputs == {EmailXY, EmailNoDot, EmailNoHost, EmailSpace, EmailTwoAt}
\* values picked in the status <select> of the panel
StatusInputs == {"Contacted"}

\* names and companies are sequences of characters too
Lead1 == [id |-> 1, name |-> <<"A", "b", "a">>, company |-> <<"A", "c">>,
          email |-> EmailAB, source |-> "Web", score |-> 90, status |-> "New"]
Lead2 == [id |-> 2, name |-> <<"b", "o", "b">>, company |-> <<"B", "c">>,
          email |-> EmailXY, source |-> "Referral", score |-> 75, status |-> "Qualified"]

\* bodies /leads.json may deliver: ordered sequences of leads with unique ids
Datasets == {<< >>, <<Lead1, Lead2>>}

\* messages the catch block of loadLeads can store
LoadErrors == {"Failed to load leads", "Failed to fetch", "An error occurred"}

\* Math.floor(Math.random() * 100000) ranges over 0..99999
RandomFloors == {0, 99999}

(* ------------------------------ state --------------------------------- *)
VARIABLES
    leads,          \* App: useState<Lead[]>([])
    opportunities,  \* App: useState<Opportunity[]>([])
    selectedLead,   \* App: useState<Lead | null>(null)
    isLoading,      \* App: useState(true)
    isModalLoading, \* App: useState(false)
    error,          \* App: useState<string | null>(null)
    activeTab,      \* App: useState<'leads' | 'opps'>('leads')
    loadPc,         \* "running" while loadLeads is suspended in its awaits
    pendingSelect,  \* handleLeadSelect calls suspended in the 200 ms timer, FIFO
    pendingSave,    \* handleSave calls suspended in the 500 ms timer, FIFO
    panel,          \* LeadDetailPanel local state (unmounted: NoPanel)
    list,           \* LeadsList local state (unmounted: NoList)
    store,          \* localStorage: the five leads-* items
    pendingNav      \* page navigations suspended in the 300 ms timer, FIFO

appVars == <<leads, opportunities, selectedLead, isLoading, isModalLoading, error, activeTab>>
listVars == <<list, store, pendingNav>>
vars == <<leads, opportunities, selectedLead, isLoading, isModalLoading, error, activeTab,
          loadPc, pendingSelect, pendingSave, panel, list, store, pendingNav>>

NoPanel == [isEditing |-> FALSE, editedLead |-> NoLead, errors |-> NoFieldError, isSaving |-> FALSE]

\* useState initialisers of LeadDetailPanel when it mounts with prop lead
MountPanel(lead) ==
    [isEditing |-> FALSE, editedLead |-> lead, errors |-> NoFieldError, isSaving |-> FALSE]

\* useEffect(..., [lead]) of LeadDetailPanel
ResetEffect(p, lead) ==
    [p EXCEPT !.editedLead = lead, !.errors = NoFieldError, !.isEditing = FALSE]

(* ------------------------ render gating of App ------------------------ *)
Loading == isLoading
Error == ~isLoading /\ error # NoError
Ready == ~isLoading /\ error = NoError
PanelMounted == Ready /\ selectedLead # NoLead


(* ---------------------- LeadDetailPanel helpers ----------------------- *)
\* the character class [^\s@]
NonSpaceNonAt(c) == c \notin {" ", "@"}

\* one step of the automaton of /^[^\s@]+@[^\s@]+\.[^\s@]+$/ ; its positions
\* are 0 (start), 1 (in the first class), 2 (after "@"), 3 (in the second
\* class), 4 (after "\."), 5 (in the third class, accepting)
RegexStep(S, c) ==
    {t \in 1..5 :
        \/ t = 1 /\ NonSpaceNonAt(c) /\ (0 \in S \/ 1 \in S)
        \/ t = 2 /\ c = "@" /\ 1 \in S
        \/ t = 3 /\ NonSpaceNonAt(c) /\ (2 \in S \/ 3 \in S)
        \/ t = 4 /\ c = "." /\ 3 \in S
        \/ t = 5 /\ NonSpaceNonAt(c) /\ (4 \in S \/ 5 \in S)}

RECURSIVE RegexRun(_, _, _)
RegexRun(S, email, i) ==
    IF i > Len(email) THEN S ELSE RegexRun(RegexStep(S, email[i]), email, i + 1)

\* emailRegex.test(email)
validateEmail(email) == 5 \in RegexRun({0}, email, 1)

(* --------------------------- App helpers ------------------------------ *)
\* setIsLoading(true); setError(null) at the start of loadLeads
ErrorAtLoadStartKept(prev) == prev

ErrorAtLoadStart(prev) == NoError

\* finally { setIsLoading(false) } of loadLeads
LoadingAfterFinallyKept(prev) == prev

LoadingAfterFinally(prev) == FALSE

\* an update that drops the old record and pushes the new one at the end
LeadsAfterUpdateMoved(prevLeads, updatedLead) ==
    IF \E i \in 1..Len(prevLeads) : prevLeads[i].id = updatedLead.id
    THEN Append(SelectSeq(prevLeads, LAMBDA l : l.id # updatedLead.id), updatedLead)
    ELSE prevLeads

\* setLeads(prevLeads => prevLeads.map(...)) of handleLeadUpdate
LeadsAfterUpdate(prevLeads, updatedLead) ==
    [i \in 1..Len(prevLeads) |->
        IF prevLeads[i].id = updatedLead.id THEN updatedLead ELSE prevLeads[i]]

\* setSelectedLead(updatedLead) of handleLeadUpdate
SelectionAfterUpdate(updatedLead) == updatedLead

\* an opportunity that takes its id from the lead
NewOpportunityLeadId(opps, lead, floor) ==
    [id |-> lead.id, name |-> lead.name, stage |-> "Prospecting",
     amount |-> floor + 10000, accountName |-> lead.company, leadId |-> lead.id]

\* newOpportunity of handleConvertToOpportunity; floor is
\* Math.floor(Math.random() * 100000)
NewOpportunity(opps, lead, floor) ==
    [id |-> Len(opps) + 1, name |-> lead.name, stage |-> "Prospecting",
     amount |-> floor + 10000, accountName |-> lead.company, leadId |-> lead.id]

\* a copy whose status is a fourth value
ConvertedCopy(lead) == [lead EXCEPT !.status = "Converted"]

\* { ...lead, status: 'Qualified' }
QualifiedCopy(lead) == [lead EXCEPT !.status = "Qualified"]

\* a convert that leaves the selection as handleLeadUpdate set it
SelectionAfterConvertKept(updatedLead) == updatedLead

\* handleLeadUpdate(updatedLead) followed by setSelectedLead(null)
SelectionAfterConvert(updatedLead) == NoLead

\* panel states React can show once the lead prop went from old to new and
\* the handler left the local state at p.  The [lead] effect compares object
\* identity: a record equal in value may or may not be the same object.
PanelAfter(old, new, p) ==
    IF new = NoLead THEN {NoPanel}
    ELSE IF old = NoLead THEN {MountPanel(new)}
    ELSE IF new # old THEN {ResetEffect(p, new)}
    ELSE {p, ResetEffect(p, new)}

\* continuations of handleSave whose panel has been unmounted
Orphaned(ps, byClose) ==
    [i \in 1..Len(ps) |->
        [ps[i] EXCEPT !.live = FALSE, !.closed = ps[i].closed \/ byClose]]

(* --------------------------- LeadsList data --------------------------- *)
\* <option> values of the page-size <select>
PageSizes == {5, 10, 20, 50}
\* <option> values of the status-filter <select>
StatusFilters == {"All", "New", "Contacted", "Qualified"}
\* the three sortable column headers
SortKeys == {"name", "company", "score"}

\* leads 3..12 of the twelve-lead body: names, companies, scores and
\* statuses repeat so that keys tie and differ in case only
NameCycle == << <<"A", "b", "a">>, <<"b", "o", "b">>, <<"a", "B">>, <<"B", "o">> >>
CompanyCycle == << <<"A", "c">>, <<"B", "c">>, <<"a", "c">> >>
ScoreCycle == <<90, 75, 90, 60, 75>>
StatusCycle == <<"New", "Contacted", "Qualified">>

ListLead(i) ==
    [id |-> i, name |-> NameCycle[(i % 4) + 1], company |-> CompanyCycle[(i % 3) + 1],
     email |-> EmailAB, source |-> "Web", score |-> ScoreCycle[(i % 5) + 1],
     status |-> StatusCycle[(i % 3) + 1]]

TwelveLeads == <<Lead1, Lead2>> \o [i \in 1..10 |-> ListLead(i + 2)]

\* bodies of /leads.json shown in the list
ListDatasets == {<<Lead1, Lead2>>, TwelveLeads}

\* values typed into the search input
SearchInputs == {<< >>, <<"O">>, <<"a", "B", "A">>, <<"z">>}

\* localStorage.getItem: null, or the stored string
NoItem == [none |-> TRUE]
Item(v) == [v |-> v]

EmptyStore ==
    [search |-> NoItem, status |-> NoItem, sortBy |-> NoItem, sortOrder |-> NoItem,
     pageSize |-> NoItem]

\* what an earlier session left in localStorage
SavedStore ==
    [search |-> Item(<<"O">>), status |-> Item("New"), sortBy |-> Item("name"),
     sortOrder |-> Item("asc"), pageSize |-> Item(<<"5">>)]

\* items no version of the view writes
ForeignStore ==
    [search |-> Item(<< >>), status |-> Item("Archived"), sortBy |-> Item("email"),
     sortOrder |-> Item("up"), pageSize |-> Item(<<"5", "p", "x">>)]

StoreInputs == {EmptyStore, SavedStore, ForeignStore}

(* -------------------------- LeadsList helpers ------------------------- *)
\* String.prototype.toLowerCase on one character
ToLowerChar(c) ==
    CASE c = "A" -> "a"
      [] c = "B" -> "b"
      [] c = "C" -> "c"
      [] c = "N" -> "n"
      [] c = "O" -> "o"
      [] OTHER -> c

toLowerCase(str) == [i \in 1..Len(str) |-> ToLowerChar(str[i])]

\* String.prototype.includes
includes(str, search) ==
    \E k \in 0..(Len(str) - Len(search)) :
        \A j \in 1..Len(search) : str[k + j] = search[j]

\* UTF-16 code units of the characters used
CharCode(c) ==
    CASE c = " " -> 32
      [] c = "A" -> 65
      [] c = "B" -> 66
      [] c = "C" -> 67
      [] c = "N" -> 78
      [] c = "O" -> 79
      [] c = "a" -> 97
      [] c = "b" -> 98
      [] c = "c" -> 99
      [] c = "n" -> 110
      [] c = "o" -> 111
      [] c = "z" -> 122

\* a < b on two strings: the first differing code unit decides, a proper
\* prefix is smaller
StringLess(a, b) ==
    \E k \in 1..Len(b) :
        /\ \A j \in 1..(k - 1) : j <= Len(a) /\ a[j] = b[j]
        /\ k > Len(a) \/ CharCode(a[k]) < CharCode(b[k])

\* a filter that compares the characters as typed
MatchesFilterCaseSensitive(lead, searchTerm, statusFilter) ==
    /\ includes(lead.name, searchTerm) \/ includes(lead.company, searchTerm)
    /\ statusFilter = "All" \/ lead.status = statusFilter

\* the predicate of leads.filter(...)
MatchesFilter(lead, searchTerm, statusFilter) ==
    /\ \/ includes(toLowerCase(lead.name), toLowerCase(searchTerm))
       \/ includes(toLowerCase(lead.company), toLowerCase(searchTerm))
    /\ statusFilter = "All" \/ lead.status = statusFilter

FilterLeads(ls, searchTerm, statusFilter) ==
    SelectSeq(ls, LAMBDA lead : MatchesFilter(lead, searchTerm, statusFilter))

\* a comparison of the names and companies as written
ValueLessCaseSensitive(a, b, sortBy) ==
    CASE sortBy = "score" -> a.score < b.score
      [] sortBy = "name" -> StringLess(a.name, b.name)
      [] sortBy = "company" -> StringLess(a.company, b.company)

\* aValue < bValue for the values the switch on sortBy picks
ValueLess(a, b, sortBy) ==
    CASE sortBy = "score" -> a.score < b.score
      [] sortBy = "name" -> StringLess(toLowerCase(a.name), toLowerCase(b.name))
      [] sortBy = "company" -> StringLess(toLowerCase(a.company), toLowerCase(b.company))

\* the comparator handed to filtered.sort
Compare(a, b, sortBy, sortOrder) ==
    IF ValueLess(a, b, sortBy) THEN (IF sortOrder = "asc" THEN -1 ELSE 1)
    ELSE IF ValueLess(b, a, sortBy) THEN (IF sortOrder = "asc" THEN 1 ELSE -1)
    ELSE 0

\* x goes behind the last element that does not compare greater than it
RECURSIVE InsertSorted(_, _, _, _)
InsertSorted(sorted, x, sortBy, sortOrder) ==
    IF sorted = << >> THEN <<x>>
    ELSE IF Compare(sorted[Len(sorted)], x, sortBy, sortOrder) <= 0
         THEN Append(sorted, x)
         ELSE Append(InsertSorted(SubSeq(sorted, 1, Len(sorted) - 1), x, sortBy, sortOrder),
                     sorted[Len(sorted)])

\* Array.prototype.sort (stable since ES2019)
RECURSIVE SortLeads(_, _, _)
SortLeads(ls, sortBy, sortOrder) ==
    IF ls = << >> THEN << >>
    ELSE InsertSorted(SortLeads(SubSeq(ls, 1, Len(ls) - 1), sortBy, sortOrder),
                      ls[Len(ls)], sortBy, sortOrder)

\* the useMemo of LeadsList
filteredAndSortedLeads(ls, l) ==
    SortLeads(FilterLeads(ls, l.searchTerm, l.statusFilter), l.sortBy, l.sortOrder)

\* Math.floor in the place of Math.ceil
TotalPagesFloor(length, pageSize) == length \div pageSize

\* Math.ceil(length / pageSize)
TotalPagesOf(length, pageSize) == (length + pageSize - 1) \div pageSize

\* filteredAndSortedLeads.slice((page - 1) * pageSize, (page - 1) * pageSize + pageSize)
PageSlice(S, page, pageSize) ==
    LET startIndex == (page - 1) * pageSize
        endIndex == startIndex + pageSize
    IN  SubSeq(S, startIndex + 1, IF endIndex < Len(S) THEN endIndex ELSE Len(S))

\* the numbered page buttons: Array.from({ length: Math.min(5, totalPages) }, ...)
PageButtons(currentPage, totalPages) ==
    {IF totalPages <= 5 THEN i + 1
     ELSE IF currentPage <= 3 THEN i + 1
     ELSE IF currentPage >= totalPages - 2 THEN totalPages - 4 + i
     ELSE currentPage - 2 + i :
        i \in 0..((IF totalPages < 5 THEN totalPages ELSE 5) - 1)}

DigitChars == <<"0", "1", "2", "3", "4", "5", "6", "7", "8", "9">>
IsDigit(c) == \E d \in 1..10 : DigitChars[d] = c
DigitValue(c) == (CHOOSE d \in 1..10 : DigitChars[d] = c) - 1

\* Number.prototype.toString of a non-negative integer
RECURSIVE toString(_)
toString(n) ==
    IF n < 10 THEN <<DigitChars[n + 1]>>
    ELSE Append(toString(n \div 10), DigitChars[(n % 10) + 1])

\* parseInt of a string that starts with a digit: the leading digits count
RECURSIVE ParseDigits(_, _, _)
ParseDigits(str, i, acc) ==
    IF i > Len(str) \/ ~IsDigit(str[i]) THEN acc
    ELSE ParseDigits(str, i + 1, acc * 10 + DigitValue(str[i]))

parseInt(str) == ParseDigits(str, 1, 0)

\* LeadsList is not rendered
NoList == [mounted |-> FALSE]

\* the useState initialisers of LeadsList followed by the setters of the
\* localStorage initialiser
MountList(st) ==
    [searchTerm |-> IF st.search # NoItem /\ st.search.v # << >>
                    THEN st.search.v ELSE << >>,
     statusFilter |-> IF st.status # NoItem /\ st.status.v \in {"New", "Contacted", "Qualified", "All"}
                      THEN st.status.v ELSE "All",
     sortBy |-> IF st.sortBy # NoItem /\ st.sortBy.v \in {"score", "name", "company"}
                THEN st.sortBy.v ELSE "score",
     sortOrder |-> IF st.sortOrder # NoItem /\ st.sortOrder.v \in {"asc", "desc"}
                   THEN st.sortOrder.v ELSE "desc",
     pageSize |-> IF st.pageSize # NoItem
                     /\ st.pageSize.v \in {<<"5">>, <<"1", "0">>, <<"2", "0">>, <<"5", "0">>}
                  THEN parseInt(st.pageSize.v) ELSE 10,
     currentPage |-> 1,
     isPageLoading |-> FALSE]

\* a saveFilters that leaves the leads-sort-order item alone
saveFiltersStaleOrder(st, search, status, sort, order, pageSize) ==
    [search |-> Item(search), status |-> Item(status), sortBy |-> Item(sort),
     sortOrder |-> st.sortOrder,
     pageSize |-> IF pageSize # 0 THEN Item(toString(pageSize)) ELSE st.pageSize]

\* saveFilters(search, status, sort, order, pageSize?); pageSize 0 stands for
\* the omitted argument
saveFilters(st, search, status, sort, order, pageSize) ==
    [search |-> Item(search), status |-> Item(status), sortBy |-> Item(sort),
     sortOrder |-> Item(order),
     pageSize |-> IF pageSize # 0 THEN Item(toString(pageSize)) ELSE st.pageSize]

\* an effect whose dependencies lack sortOrder
ResetPageEffectNoOrder(old, new) ==
    IF <<new.searchTerm, new.statusFilter, new.sortBy>>
       # <<old.searchTerm, old.statusFilter, old.sortBy>>
    THEN [new EXCEPT !.currentPage = 1]
    ELSE new

\* useEffect(() => setCurrentPage(1), [searchTerm, statusFilter, sortBy, sortOrder])
\* after a render that took the list from old to new
ResetPageEffect(old, new) ==
    IF <<new.searchTerm, new.statusFilter, new.sortBy, new.sortOrder>>
       # <<old.searchTerm, old.statusFilter, old.sortBy, old.sortOrder>>
    THEN [new EXCEPT !.currentPage = 1]
    ELSE new

\* a new key that inherits the direction of the old one
NewOrderKept(sortBy, sortOrder, field) ==
    IF sortBy = field THEN (IF sortOrder = "desc" THEN "asc" ELSE "desc") ELSE sortOrder

\* newOrder of handleSortChange
NewOrder(sortBy, sortOrder, field) ==
    IF sortBy = field /\ sortOrder = "desc" THEN "asc" ELSE "desc"

(* ------------------------------ Init ---------------------------------- *)
\* state after the first render of App and its mount effect (loadLeads runs
\* to its first await)
Init ==
    /\ leads = << >>
    /\ opportunities = << >>
    /\ selectedLead = NoLead
    /\ isLoading = TRUE
    /\ isModalLoading = FALSE
    /\ error = NoError
    /\ activeTab = "leads"
    /\ loadPc = "running"
    /\ pendingSelect = << >>
    /\ pendingSave = << >>
    /\ panel = NoPanel
    /\ list = NoList
    /\ store = EmptyStore
    /\ pendingNav = << >>

(* ----------------------------- loadLeads ------------------------------ *)
\* fetch resolved ok and response.json() delivered data
LoadSucceed ==
    /\ loadPc = "running"
    /\ \E data \in Datasets :
        /\ leads' = data
    /\ isLoading' = LoadingAfterFinally(isLoading)
    /\ loadPc' = "done"
    /\ UNCHANGED <<opportunities, selectedLead, isModalLoading, error, activeTab,
                   pendingSelect, pendingSave, panel>>
    /\ list' = IF activeTab = "leads" THEN MountList(store) ELSE NoList
    /\ UNCHANGED <<store, pendingNav>>

\* fetch rejected, response not ok, or response.json() threw
LoadFail ==
    /\ loadPc = "running"
    /\ \E msg \in LoadErrors :
        /\ error' = msg
    /\ isLoading' = LoadingAfterFinally(isLoading)
    /\ loadPc' = "done"
    /\ UNCHANGED <<leads, opportunities, selectedLead, isModalLoading, activeTab,
                   pendingSelect, pendingSave, panel>>
    /\ UNCHANGED listVars

\* "Try Again" button of the error screen: loadLeads up to its first await
Retry ==
    /\ Error
    /\ loadPc = "done"
    /\ isLoading' = TRUE
    /\ error' = ErrorAtLoadStart(error)
    /\ loadPc' = "running"
    /\ UNCHANGED <<leads, opportunities, selectedLead, isModalLoading, activeTab,
                   pendingSelect, pendingSave, panel>>
    /\ UNCHANGED listVars

(* -------------------------- handleLeadSelect -------------------------- *)
\* click on a row of LeadsList; the backdrop of the panel covers the rows
RowClick ==
    /\ Ready
    /\ activeTab = "leads"
    /\ selectedLead = NoLead
    /\ Len(pendingSelect) < MaxPendingSelect
    /\ \E i \in 1..Len(leads) :
        /\ pendingSelect' = Append(pendingSelect, leads[i])
    /\ isModalLoading' = TRUE
    /\ UNCHANGED <<leads, opportunities, selectedLead, isLoading, error, activeTab,
                   loadPc, pendingSave, panel>>
    /\ UNCHANGED listVars

\* the 200 ms timer of handleLeadSelect fired
SelectDone ==
    /\ pendingSelect # << >>
    /\ LET lead == Head(pendingSelect) IN
        /\ selectedLead' = lead
        /\ panel' \in PanelAfter(selectedLead, lead, panel)
    /\ pendingSelect' = Tail(pendingSelect)
    /\ UNCHANGED <<leads, opportunities, isLoading, isModalLoading, error, activeTab,
                   loadPc, pendingSave>>
    /\ UNCHANGED listVars

(* --------------------------- LeadDetailPanel -------------------------- *)
\* "Edit Lead" button
EditClick ==
    /\ PanelMounted
    /\ ~panel.isEditing
    /\ panel' = [panel EXCEPT !.isEditing = TRUE]
    /\ UNCHANGED <<appVars, loadPc, pendingSelect, pendingSave>>
    /\ UNCHANGED listVars

\* handleFieldChange('email', value)
EmailChange ==
    /\ PanelMounted
    /\ panel.isEditing
    /\ \E value \in EmailInputs :
        /\ value # panel.editedLead.email
        /\ panel' = [panel EXCEPT !.editedLead.email = value, !.errors = NoFieldError]
    /\ UNCHANGED <<appVars, loadPc, pendingSelect, pendingSave>>
    /\ UNCHANGED listVars

\* handleFieldChange('status', value)
StatusChange ==
    /\ PanelMounted
    /\ panel.isEditing
    /\ \E value \in StatusInputs :
        /\ value # panel.editedLead.status
        /\ panel' = [panel EXCEPT !.editedLead.status = value]
    /\ UNCHANGED <<appVars, loadPc, pendingSelect, pendingSave>>
    /\ UNCHANGED listVars

\* handleSave up to its return (invalid e-mail) or its await
SaveClick ==
    /\ PanelMounted
    /\ panel.isEditing
    /\ ~panel.isSaving
    /\ IF ~validateEmail(panel.editedLead.email)
       THEN /\ panel' = [panel EXCEPT !.errors = InvalidEmailMsg]
            /\ UNCHANGED pendingSave
       ELSE /\ Len(pendingSave) < MaxPendingSave
            /\ panel' = [panel EXCEPT !.isSaving = TRUE]
            /\ pendingSave' = Append(pendingSave,
                   [lead |-> panel.editedLead, live |-> TRUE, closed |-> FALSE])
    /\ UNCHANGED <<appVars, loadPc, pendingSelect>>
    /\ UNCHANGED listVars

\* handleSave after the 500 ms timer, Math.random() >= 0.1
SaveSucceed ==
    /\ pendingSave # << >>
    /\ LET s == Head(pendingSave)
           own == IF s.live
                  THEN [panel EXCEPT !.isEditing = FALSE, !.errors = NoFieldError,
                                     !.isSaving = FALSE]
                  ELSE panel
       IN
        /\ leads' = LeadsAfterUpdate(leads, s.lead)
        /\ selectedLead' = SelectionAfterUpdate(s.lead)
        /\ panel' \in PanelAfter(selectedLead, selectedLead', own)
    /\ pendingSave' = Tail(pendingSave)
    /\ UNCHANGED <<opportunities, isLoading, isModalLoading, error, activeTab,
                   loadPc, pendingSelect>>
    /\ UNCHANGED listVars

\* handleSave after the 500 ms timer, Math.random() < 0.1
SaveFail ==
    /\ pendingSave # << >>
    /\ LET s == Head(pendingSave) IN
        /\ panel' = IF s.live
                    THEN [panel EXCEPT !.errors = SaveFailedMsg, !.isSaving = FALSE]
                    ELSE panel
    /\ pendingSave' = Tail(pendingSave)
    /\ UNCHANGED <<appVars, loadPc, pendingSelect>>
    /\ UNCHANGED listVars

\* handleCancel
CancelClick ==
    /\ PanelMounted
    /\ panel.isEditing
    /\ ~panel.isSaving
    /\ panel' = [panel EXCEPT !.editedLead = selectedLead, !.errors = NoFieldError,
                              !.isEditing = FALSE]
    /\ UNCHANGED <<appVars, loadPc, pendingSelect, pendingSave>>
    /\ UNCHANGED listVars

\* "Convert to Opportunity" button: handleConvert -> handleConvertToOpportunity
ConvertClick ==
    /\ PanelMounted
    /\ ~panel.isEditing
    /\ Len(opportunities) < MaxOpps
    /\ \E floor \in RandomFloors :
        opportunities' = Append(opportunities,
                                NewOpportunity(opportunities, selectedLead, floor))
    /\ leads' = LeadsAfterUpdate(leads, QualifiedCopy(selectedLead))
    /\ selectedLead' = SelectionAfterConvert(QualifiedCopy(selectedLead))
    /\ panel' \in PanelAfter(selectedLead, selectedLead', panel)
    /\ pendingSave' = IF selectedLead' = NoLead THEN Orphaned(pendingSave, FALSE)
                      ELSE pendingSave
    /\ activeTab' = "opps"
    /\ UNCHANGED <<isLoading, isModalLoading, error, loadPc, pendingSelect>>
    /\ list' = NoList
    /\ pendingNav' = << >>
    /\ UNCHANGED store

\* backdrop or X button: onClose -> handleClosePanel
ClosePanel ==
    /\ PanelMounted
    /\ selectedLead' = NoLead
    /\ panel' = NoPanel
    /\ pendingSave' = Orphaned(pendingSave, TRUE)
    /\ UNCHANGED <<leads, opportunities, isLoading, isModalLoading, error, activeTab,
                   loadPc, pendingSelect>>
    /\ UNCHANGED listVars

\* the two tab buttons of App
SwitchTab ==
    /\ Ready
    /\ \E t \in {"leads", "opps"} :
        /\ t # activeTab
        /\ activeTab' = t
    /\ UNCHANGED <<leads, opportunities, selectedLead, isLoading, isModalLoading, error,
                   loadPc, pendingSelect, pendingSave, panel>>
    /\ list' = IF activeTab' = "leads" THEN MountList(store) ELSE NoList
    /\ pendingNav' = << >>
    /\ UNCHANGED store

Next ==
    \/ LoadSucceed
    \/ LoadFail
    \/ Retry
    \/ RowClick
    \/ SelectDone
    \/ EditClick
    \/ EmailChange
    \/ StatusChange
    \/ SaveClick
    \/ SaveSucceed
    \/ SaveFail
    \/ CancelClick
    \/ ConvertClick
    \/ ClosePanel
    \/ SwitchTab

Spec == Init /\ [][Next]_vars


(* ---------------- handleLeadUpdate called with any record -------------- *)
\* a record whose id no lead of /leads.json carries
UnknownLead == [id |-> 9, name |-> <<"n", "o">>, company |-> <<"N", "o">>,
                email |-> EmailXY, source |-> "Web", score |-> 10, status |-> "New"]

\* records handed to onUpdate
UpdateInputs ==
    {UnknownLead,
     [Lead1 EXCEPT !.email = EmailXY],
     [Lead1 EXCEPT !.status = "Contacted"],
     [Lead2 EXCEPT !.status = "Contacted"]}

\* handleLeadUpdate(updatedLead), called through the onUpdate prop
LeadUpdateCall(updatedLead) ==
    /\ Ready
    /\ leads' = LeadsAfterUpdate(leads, updatedLead)
    /\ selectedLead' = SelectionAfterUpdate(updatedLead)
    /\ panel' \in PanelAfter(selectedLead, selectedLead', panel)
    /\ UNCHANGED <<opportunities, isLoading, isModalLoading, error, activeTab,
                   loadPc, pendingSelect, pendingSave>>
    /\ UNCHANGED listVars

AnyLeadUpdate == \E updatedLead \in UpdateInputs : LeadUpdateCall(updatedLead)

\* App alone: its handlers, with the panel reduced to a caller of onUpdate,
\* onConvert and onClose
NextApi ==
    \/ LoadSucceed
    \/ LoadFail
    \/ Retry
    \/ RowClick
    \/ SelectDone
    \/ AnyLeadUpdate
    \/ ConvertClick
    \/ ClosePanel
    \/ SwitchTab

SpecApi == Init /\ [][NextApi]_vars

\* the timer of loadLeads fires and fetch settles
FairApi == SpecApi /\ WF_vars(LoadSucceed \/ LoadFail)

\* App and LeadDetailPanel without the convert button and the tab buttons
NextPanel ==
    \/ LoadSucceed
    \/ LoadFail
    \/ Retry
    \/ RowClick
    \/ SelectDone
    \/ EditClick
    \/ EmailChange
    \/ StatusChange
    \/ SaveClick
    \/ SaveSucceed
    \/ SaveFail
    \/ CancelClick
    \/ ClosePanel

SpecPanel == Init /\ [][NextPanel]_vars

\* App and LeadDetailPanel without the two field inputs of the edit form
NextTop ==
    \/ LoadSucceed
    \/ LoadFail
    \/ Retry
    \/ RowClick
    \/ SelectDone
    \/ EditClick
    \/ SaveClick
    \/ SaveSucceed
    \/ SaveFail
    \/ CancelClick
    \/ ConvertClick
    \/ ClosePanel
    \/ SwitchTab

SpecTop == Init /\ [][NextTop]_vars

(* ------------------- loadLeads on other response bodies --------------- *)
\* a body that is JSON but no sequence of leads: the status is none of the
\* three and the score is text
OtherShape ==
    [id |-> 1, name |-> <<"A", "b", "a">>, company |-> <<"A", "c">>, email |-> EmailNoDot,
     source |-> "Web", score |-> <<"9", "0">>, status |-> "Archived"]

WrongShapeBodies == {<<OtherShape>>}

\* messages of the SyntaxError that response.json() rejects with
JsonErrors == {"Unexpected token < in JSON at position 0", "Unexpected end of JSON input"}

\* response.ok, and response.json() rejected: the catch block stores the message
LoadMalformed ==
    /\ loadPc = "running"
    /\ \E msg \in JsonErrors :
        /\ error' = msg
    /\ isLoading' = LoadingAfterFinally(isLoading)
    /\ loadPc' = "done"
    /\ UNCHANGED <<leads, opportunities, selectedLead, isModalLoading, activeTab,
                   pendingSelect, pendingSave, panel>>
    /\ UNCHANGED listVars

\* response.ok, and response.json() delivered data that is no Lead[]:
\* setLeads(data) takes it as it is
LoadWrongShape ==
    /\ loadPc = "running"
    /\ \E data \in WrongShapeBodies :
        /\ leads' = data
    /\ isLoading' = LoadingAfterFinally(isLoading)
    /\ loadPc' = "done"
    /\ UNCHANGED <<opportunities, selectedLead, isModalLoading, error, activeTab,
                   pendingSelect, pendingSave, panel>>
    /\ list' = IF activeTab = "leads" THEN MountList(store) ELSE NoList
    /\ UNCHANGED <<store, pendingNav>>

\* App alone, with /leads.json delivering any body
NextLoad ==
    \/ LoadSucceed
    \/ LoadFail
    \/ LoadMalformed
    \/ LoadWrongShape
    \/ Retry
    \/ RowClick
    \/ SelectDone
    \/ AnyLeadUpdate
    \/ ConvertClick
    \/ ClosePanel
    \/ SwitchTab

SpecLoad == Init /\ [][NextLoad]_vars

(* ------------------------------ LeadsList ----------------------------- *)
\* LeadsList is rendered past its early return for an empty collection
ListShown == Ready /\ activeTab = "leads" /\ leads # << >>

Shown == filteredAndSortedLeads(leads, list)
totalPages == TotalPagesOf(Len(Shown), list.pageSize)
paginatedLeads == PageSlice(Shown, list.currentPage, list.pageSize)

\* the pagination footer is rendered
PagesShown == ListShown /\ totalPages > 1

\* handleSearchChange(e.target.value) and the effect that follows its render
SearchChange ==
    /\ ListShown
    /\ \E value \in SearchInputs :
        /\ value # list.searchTerm
        /\ list' = ResetPageEffect(list, [list EXCEPT !.searchTerm = value])
        /\ store' = saveFilters(store, value, list.statusFilter, list.sortBy,
                                list.sortOrder, 0)
    /\ UNCHANGED <<appVars, loadPc, pendingSelect, pendingSave, panel, pendingNav>>

\* handleStatusFilterChange(e.target.value)
StatusFilterChange ==
    /\ ListShown
    /\ \E value \in StatusFilters :
        /\ value # list.statusFilter
        /\ list' = ResetPageEffect(list, [list EXCEPT !.statusFilter = value])
        /\ store' = saveFilters(store, list.searchTerm, value, list.sortBy,
                                list.sortOrder, 0)
    /\ UNCHANGED <<appVars, loadPc, pendingSelect, pendingSave, panel, pendingNav>>

\* handleSortChange(field), from a column header
handleSortChange(field) ==
    /\ ListShown
    /\ LET newOrder == NewOrder(list.sortBy, list.sortOrder, field) IN
        /\ list' = ResetPageEffect(list, [list EXCEPT !.sortBy = field,
                                                      !.sortOrder = newOrder])
        /\ store' = saveFilters(store, list.searchTerm, list.statusFilter, field,
                                newOrder, 0)
    /\ UNCHANGED <<appVars, loadPc, pendingSelect, pendingSave, panel, pendingNav>>

\* click on the Name, Company or Score header
SortClick == \E field \in SortKeys : handleSortChange(field)

\* handlePageSizeChange(parseInt(e.target.value))
PageSizeChange ==
    /\ ListShown
    /\ \E value \in PageSizes :
        /\ value # list.pageSize
        /\ list' = ResetPageEffect(list, [list EXCEPT !.pageSize = value,
                                                      !.currentPage = 1])
        /\ store' = saveFilters(store, list.searchTerm, list.statusFilter, list.sortBy,
                                list.sortOrder, value)
    /\ UNCHANGED <<appVars, loadPc, pendingSelect, pendingSave, panel, pendingNav>>

\* a page handler up to its await; nav is what its continuation will do
StartNav(nav) ==
    /\ Len(pendingNav) < MaxPendingNav
    /\ list' = [list EXCEPT !.isPageLoading = TRUE]
    /\ pendingNav' = Append(pendingNav, nav)
    /\ UNCHANGED <<appVars, loadPc, pendingSelect, pendingSave, panel, store>>

\* handlePageChange(pageNum), from a numbered button
PageClick ==
    /\ PagesShown
    /\ \E pageNum \in PageButtons(list.currentPage, totalPages) :
        StartNav([kind |-> "set", arg |-> pageNum])

\* goToFirstPage
FirstClick ==
    /\ PagesShown
    /\ list.currentPage # 1
    /\ StartNav([kind |-> "set", arg |-> 1])

\* goToPreviousPage
PrevClick ==
    /\ PagesShown
    /\ list.currentPage # 1
    /\ StartNav([kind |-> "prev", arg |-> 0])

\* goToNextPage; the updater keeps the totalPages of the render that was
\* clicked
NextClick ==
    /\ PagesShown
    /\ list.currentPage # totalPages
    /\ StartNav([kind |-> "next", arg |-> totalPages])

\* goToLastPage; setCurrentPage keeps the totalPages of the render that was
\* clicked
LastClick ==
    /\ PagesShown
    /\ list.currentPage # totalPages
    /\ StartNav([kind |-> "set", arg |-> totalPages])

\* setCurrentPage(...) of a page handler once its timer fired
PageAfterNav(nav, prev) ==
    CASE nav.kind = "set" -> nav.arg
      [] nav.kind = "prev" -> IF prev - 1 > 1 THEN prev - 1 ELSE 1
      [] nav.kind = "next" -> IF prev + 1 < nav.arg THEN prev + 1 ELSE nav.arg

\* the 300 ms timer of a page handler fired
NavDone ==
    /\ pendingNav # << >>
    /\ list' = ResetPageEffect(list,
                   [list EXCEPT !.currentPage = PageAfterNav(Head(pendingNav), list.currentPage),
                                !.isPageLoading = FALSE])
    /\ pendingNav' = Tail(pendingNav)
    /\ UNCHANGED <<appVars, loadPc, pendingSelect, pendingSave, panel, store>>

\* the state after /leads.json delivered a body of ListDatasets, with the
\* localStorage an earlier session left
InitList ==
    /\ leads \in ListDatasets
    /\ opportunities = << >>
    /\ selectedLead = NoLead
    /\ isLoading = FALSE
    /\ isModalLoading = FALSE
    /\ error = NoError
    /\ activeTab = "leads"
    /\ loadPc = "done"
    /\ pendingSelect = << >>
    /\ pendingSave = << >>
    /\ panel = NoPanel
    /\ store \in StoreInputs
    /\ list = MountList(store)
    /\ pendingNav = << >>

\* LeadsList with the tab buttons of App, which unmount and mount it
NextList ==
    \/ SearchChange
    \/ StatusFilterChange
    \/ SortClick
    \/ PageSizeChange
    \/ PageClick
    \/ FirstClick
    \/ PrevClick
    \/ NextClick
    \/ LastClick
    \/ NavDone
    \/ SwitchTab

SpecList == InitList /\ [][NextList]_vars

(* ============================ properties ============================== *)
HasId(ls, id) == \E i \in 1..Len(ls) : ls[i].id = id

\* new is old with the record carrying R's id replaced by R, in place
ReplacedInPlace(old, new, R) ==
    /\ Len(new) = Len(old)
    /\ \A i \in 1..Len(old) :
        /\ new[i].id = old[i].id
        /\ old[i].id = R.id => new[i] = R
        /\ old[i].id # R.id => new[i] = old[i]

\* C1: every step that adds an opportunity adds exactly one and leaves the
\* selection empty; when the lead X shown in the panel is a lead of the
\* collection, the entry carries X's name and company, stage Prospecting and
\* an amount in [10000, 110000), and X's record is Qualified, all in that
\* one step.
C1_ConvertAtomic ==
    [][opportunities' # opportunities =>
        /\ Len(opportunities') = Len(opportunities) + 1
        /\ SubSeq(opportunities', 1, Len(opportunities)) = opportunities
        /\ Len(leads') = Len(leads)
        /\ LET o == opportunities'[Len(opportunities')] IN
            \A i \in 1..Len(leads) : leads[i].id = selectedLead.id =>
                /\ o.name = leads[i].name
                /\ o.accountName = leads[i].company
                /\ o.stage = "Prospecting"
                /\ o.amount \in 10000..109999
                /\ leads'[i].id = leads[i].id
                /\ leads'[i].status = "Qualified"
        /\ selectedLead' = NoLead]_vars

C1_Witness ==
    /\ Len(opportunities) = 2
    /\ selectedLead = NoLead
    /\ activeTab = "opps"
    /\ \E i \in 1..Len(leads) :
        /\ leads[i].id = opportunities[2].leadId
        /\ leads[i].status = "Qualified"
        /\ opportunities[2].name = leads[i].name

\* C2: handleLeadUpdate with a record whose id no lead carries changes
\* neither the leads, nor the opportunities, nor the selection, nor the error.
C2_UnknownIdNoOp ==
    [][\A r \in UpdateInputs : (~HasId(leads, r.id) /\ LeadUpdateCall(r)) =>
        /\ leads' = leads
        /\ opportunities' = opportunities
        /\ selectedLead' = selectedLead
        /\ error' = error]_vars

\* C3: handleLeadUpdate with a record R whose id is in the collection (called
\* directly or by convert) replaces that one record in place: same length,
\* same ids in the same order, R at the matching position, every other record
\* as before; the direct call leaves the opportunities alone.
C3_UpdateInPlace ==
    [][/\ \A R \in UpdateInputs : (HasId(leads, R.id) /\ LeadUpdateCall(R)) =>
            /\ Cardinality({i \in 1..Len(leads) : leads[i].id = R.id}) = 1
            /\ ReplacedInPlace(leads, leads', R)
            /\ opportunities' = opportunities
       /\ (HasId(leads, selectedLead.id) /\ ConvertClick) =>
            /\ Cardinality({i \in 1..Len(leads) : leads[i].id = selectedLead.id}) = 1
            /\ ReplacedInPlace(leads, leads', QualifiedCopy(selectedLead))]_vars

C3_Witness ==
    /\ Len(leads) = 2
    /\ leads[1] = [Lead1 EXCEPT !.email = EmailXY]
    /\ leads[2] = [Lead2 EXCEPT !.status = "Contacted"]
    /\ selectedLead = leads[1]
    /\ opportunities = << >>

\* C4: a completed save changes the selection only if the saved lead is the
\* selected one: with an empty selection or another lead selected the
\* selection stays, with the same lead selected it becomes the saved record.
C4_SelectionOnlyIfSelected ==
    [][SaveSucceed =>
        LET R == Head(pendingSave).lead IN
        /\ (selectedLead = NoLead \/ selectedLead.id # R.id) => selectedLead' = selectedLead
        /\ (selectedLead # NoLead /\ selectedLead.id = R.id) => selectedLead' = R]_vars

\* C5: Close changes nothing but the selection; a save that was still
\* pending when its panel was closed never changes the leads; an empty
\* selection stays empty until a select completes.
C5_CloseDiscards ==
    [][/\ ClosePanel =>
            /\ selectedLead' = NoLead
            /\ <<leads, opportunities, isLoading, isModalLoading, error, activeTab>>'
                 = <<leads, opportunities, isLoading, isModalLoading, error, activeTab>>
       /\ (pendingSave # << >> /\ Head(pendingSave).closed /\ SaveSucceed) => leads' = leads
       /\ (selectedLead = NoLead /\ selectedLead' # NoLead) => SelectDone]_vars

\* the pattern: one or more characters that are neither white space nor "@",
\* an "@", one or more such characters, a ".", one or more such characters
MatchesPattern(e) ==
    \E a \in 2..Len(e) : \E d \in (a + 2)..(Len(e) - 1) :
        /\ e[a] = "@"
        /\ e[d] = "."
        /\ \A k \in (1..Len(e)) \ {a} : e[k] # " " /\ e[k] # "@"

\* C6: Save with an e-mail outside the pattern sets the field error, stays in
\* Editing and starts no round trip; with an e-mail inside the pattern it
\* starts one for the whole edit buffer.  A round trip that fails leaves the
\* leads and the selection alone and, in the panel that started it, sets the
\* failure message with the panel in Editing; one that succeeds replaces the
\* lead by the full edited record and its panel is in Viewing with no error.
\* Outside load and convert the leads change in no other step.
C6_SaveBlocksBeforeApply ==
    /\ [](\A i \in 1..Len(pendingSave) : MatchesPattern(pendingSave[i].lead.email))
    /\ [][/\ SaveClick =>
                /\ leads' = leads
                /\ selectedLead' = selectedLead
                /\ panel'.isEditing
                /\ IF MatchesPattern(panel.editedLead.email)
                   THEN /\ pendingSave' = Append(pendingSave,
                               [lead |-> panel.editedLead, live |-> TRUE, closed |-> FALSE])
                        /\ panel'.errors = panel.errors
                   ELSE /\ pendingSave' = pendingSave
                        /\ panel'.errors = InvalidEmailMsg
          /\ SaveSucceed =>
                /\ ReplacedInPlace(leads, leads', Head(pendingSave).lead)
                /\ Head(pendingSave).live =>
                      ~panel'.isEditing /\ panel'.errors = NoFieldError
          /\ SaveFail =>
                /\ leads' = leads
                /\ selectedLead' = selectedLead
                /\ Head(pendingSave).live =>
                      panel'.errors = SaveFailedMsg /\ panel'.isEditing
          /\ leads' # leads => (LoadSucceed \/ ConvertClick \/ SaveSucceed)]_vars

\* C7: convert is offered in Viewing only and changes nothing of the
\* collection but the status of the converted lead's record.
C7_ConvertStatusOnly ==
    [][ConvertClick =>
        /\ ~panel.isEditing
        /\ leads' = [i \in 1..Len(leads) |->
                        IF leads[i].id = selectedLead.id
                        THEN [leads[i] EXCEPT !.status = "Qualified"]
                        ELSE leads[i]]]_vars

\* C8: the loading flag and the error are never set together; Error is left
\* only by Retry and only to Loading, Loading only by the end of a load, Ready
\* never; Retry runs in Error only, and row clicks, select completions, save
\* completions, convert and close run in Ready only.
C8_TopLevelStates ==
    /\ [](isLoading => error = NoError)
    /\ [][/\ (Error /\ ~Error') => (Retry /\ Loading')
          /\ (Loading /\ ~Loading') => (LoadSucceed \/ LoadFail)
          /\ Ready => Ready'
          /\ Retry => Error
          /\ (RowClick \/ SelectDone \/ SaveSucceed \/ ConvertClick \/ ClosePanel) => Ready]_vars

C8_Witness ==
    /\ Error
    /\ loadPc = "done"
    /\ ENABLED Retry

\* C9: a load that succeeds leaves the fetched sequence as the leads and no
\* error; one that fails leaves a message as the error and no leads; both
\* leave the loading flag false; and a load that runs eventually ends.
C9_LoadOutcomes ==
    /\ [][/\ LoadSucceed => (leads' \in Datasets /\ error' = NoError /\ ~isLoading')
          /\ LoadFail => (error' \in LoadErrors /\ leads' = << >> /\ ~isLoading')]_vars
    /\ [](loadPc = "done" => ~isLoading)
    /\ (loadPc = "running" ~> loadPc = "done")

C9_Witness ==
    /\ error = "Failed to load leads"
    /\ ~isLoading
    /\ leads = << >>
    /\ loadPc = "done"

\* C10: a step leaves the opportunities as they are or appends one entry to
\* them, and only convert appends; the i-th opportunity has id i.
C10_OpportunitiesAppendOnly ==
    /\ [](\A i \in 1..Len(opportunities) : opportunities[i].id = i)
    /\ [][\/ opportunities' = opportunities
          \/ /\ ConvertClick
             /\ Len(opportunities') = Len(opportunities) + 1
             /\ SubSeq(opportunities', 1, Len(opportunities)) = opportunities]_vars

C10_Witness ==
    /\ Len(opportunities) = 2
    /\ opportunities[1].leadId = 2
    /\ opportunities[2].leadId = 1
    /\ opportunities[1].amount # opportunities[2].amount

\* a and b are the same lead up to e-mail and status
SameIdentity(a, b) ==
    /\ a.id = b.id
    /\ a.name = b.name
    /\ a.company = b.company
    /\ a.source = b.source
    /\ a.score = b.score

\* C11: once loaded, the leads keep their number and order, every lead keeps
\* its id, name, company, source and score, the ids stay unique and every
\* status is one of New, Contacted, Qualified.
C11_LeadsKeepIdentity ==
    /\ [](\A i, j \in 1..Len(leads) : leads[i].id = leads[j].id => i = j)
    /\ [](\A i \in 1..Len(leads) : leads[i].status \in LeadStatus)
    /\ [](\E data \in Datasets :
            /\ Len(leads) = Len(data)
            /\ \A i \in 1..Len(data) : SameIdentity(leads[i], data[i]))
    /\ [][loadPc = "done" =>
            /\ Len(leads') = Len(leads)
            /\ \A i \in 1..Len(leads) : SameIdentity(leads'[i], leads[i])]_vars

C11_Witness ==
    /\ Len(leads) = 2
    /\ leads[1].email = EmailXY
    /\ leads[1].status = "Qualified"
    /\ leads[2].status = "Contacted"
    /\ Len(opportunities) = 1

\* the same letter, whatever the case
SameLetter(c, d) == ToLowerChar(c) = ToLowerChar(d)

\* text occurs in str when case is ignored
ContainsIgnoringCase(str, text) ==
    \E k \in 0..(Len(str) - Len(text)) :
        \A j \in 1..Len(text) : SameLetter(str[k + j], text[j])

\* the position of the lead with this id in ls (ids are unique)
PositionOf(ls, id) == CHOOSE i \in 1..Len(ls) : ls[i].id = id

\* sub holds elements of ls only, each once, in the order of ls
OrderedSubsequence(sub, ls) ==
    /\ \A i \in 1..Len(sub) : \E j \in 1..Len(ls) : ls[j] = sub[i]
    /\ \A i, j \in 1..Len(sub) :
        i < j => PositionOf(ls, sub[i].id) < PositionOf(ls, sub[j].id)

\* C12: a lead is in the filtered result exactly if the search text is empty
\* or occurs in its name or company ignoring case, and the status filter is
\* All or its status; the result keeps the order of the leads, filtering it
\* again changes nothing, and no list handler changes the leads.
C12_FilterMembership ==
    /\ [](list # NoList =>
            \A text \in SearchInputs, status \in StatusFilters :
                LET F == FilterLeads(leads, text, status) IN
                /\ \A i \in 1..Len(leads) :
                    (\E j \in 1..Len(F) : F[j] = leads[i])
                    <=> /\ \/ text = << >>
                           \/ ContainsIgnoringCase(leads[i].name, text)
                           \/ ContainsIgnoringCase(leads[i].company, text)
                        /\ status = "All" \/ leads[i].status = status
                /\ OrderedSubsequence(F, leads)
                /\ FilterLeads(F, text, status) = F)
    /\ [](list # NoList =>
            OrderedSubsequence(FilterLeads(leads, list.searchTerm, list.statusFilter), leads))
    /\ [][(SearchChange \/ StatusFilterChange \/ SortClick \/ PageSizeChange \/ NavDone)
            => leads' = leads]_vars

C12_Witness ==
    /\ list # NoList
    /\ leads = TwelveLeads
    /\ list.searchTerm = <<"a", "B", "A">>
    /\ list.statusFilter = "New"
    /\ Len(Shown) = 2
    /\ {Shown[1].id, Shown[2].id} = {1, 12}

\* the sort key of a lead, with letters folded to lower case
KeyBefore(a, b, sortBy) ==
    LET LowerCode(c) == CharCode(ToLowerChar(c))
        TextBefore(x, y) ==
            \E k \in 1..Len(y) :
                /\ \A j \in 1..(k - 1) : j <= Len(x) /\ LowerCode(x[j]) = LowerCode(y[j])
                /\ k > Len(x) \/ LowerCode(x[k]) < LowerCode(y[k])
    IN  CASE sortBy = "score" -> a.score < b.score
          [] sortBy = "name" -> TextBefore(a.name, b.name)
          [] sortBy = "company" -> TextBefore(a.company, b.company)

\* C13: for every key and direction the sorted sequence is a permutation of
\* the filtered leads, no lead stands before one whose key comes first in
\* that direction, and leads whose keys tie stand in their filtered order.
C13_SortStable ==
    [](list # NoList =>
        \A sortBy \in SortKeys, sortOrder \in {"asc", "desc"} :
            LET F == FilterLeads(leads, list.searchTerm, list.statusFilter)
                S == SortLeads(F, sortBy, sortOrder)
                First(a, b) == IF sortOrder = "asc" THEN KeyBefore(a, b, sortBy)
                               ELSE KeyBefore(b, a, sortBy)
            IN  /\ Len(S) = Len(F)
                /\ \A i \in 1..Len(F) : \E j \in 1..Len(S) : S[j] = F[i]
                /\ \A i, j \in 1..Len(S) :
                    i < j =>
                        /\ ~First(S[j], S[i])
                        /\ (~First(S[i], S[j])
                            => PositionOf(F, S[i].id) < PositionOf(F, S[j].id)))

C13_Witness ==
    /\ list # NoList
    /\ leads = TwelveLeads
    /\ list.searchTerm = << >>
    /\ list.statusFilter = "All"
    /\ list.sortBy = "name"
    /\ list.sortOrder = "asc"
    /\ Shown[1].name = <<"a", "B">>
    /\ Shown[4].name = <<"A", "b", "a">>
    /\ Shown[4].id < Shown[5].id
    /\ Shown[12].name = <<"b", "o", "b">>

RECURSIVE PagesConcat(_, _, _)
PagesConcat(S, k, pageSize) ==
    IF k = 0 THEN << >>
    ELSE PagesConcat(S, k - 1, pageSize) \o PageSlice(S, k, pageSize)

\* C14: for every page size and every prefix S of the shown sequence, the
\* number of pages is the least T with T * p >= |S|, page k holds the
\* elements (k-1)*p+1 .. k*p of S, and the pages 1..T in a row are S; the
\* last-page control sets out for the last page and its timer lands there
\* (page 2 for twelve leads at ten a page).
C14_PagesPartition ==
    /\ [](list # NoList =>
            \A p \in PageSizes, n \in 0..Len(Shown) :
                LET S == SubSeq(Shown, 1, n)
                    T == TotalPagesOf(n, p)
                IN  /\ T * p >= n
                    /\ T >= 0
                    /\ T > 0 => (T - 1) * p < n
                    /\ \A k \in 1..T :
                        /\ Len(PageSlice(S, k, p)) = (IF k * p <= n THEN p ELSE n - (k - 1) * p)
                        /\ \A i \in 1..Len(PageSlice(S, k, p)) :
                            PageSlice(S, k, p)[i] = S[(k - 1) * p + i]
                    /\ PagesConcat(S, T, p) = S)
    /\ [](list # NoList => paginatedLeads = PageSlice(Shown, list.currentPage, list.pageSize))
    /\ [][LastClick =>
            /\ pendingNav' = Append(pendingNav, [kind |-> "set", arg |-> totalPages])
            /\ (Len(Shown) = 12 /\ list.pageSize = 10) => totalPages = 2]_vars
    /\ [][(NavDone /\ Head(pendingNav).kind = "set")
            => list'.currentPage = Head(pendingNav).arg]_vars

C14_Witness ==
    /\ list # NoList
    /\ Len(Shown) = 12
    /\ list.pageSize = 10
    /\ list.currentPage = 2
    /\ totalPages = 2
    /\ Len(paginatedLeads) = 2
    /\ pendingNav = << >>

\* C15: the step that changes the search text, the status filter, the sort
\* key, the sort direction or the page size ends with the page index at 1.
C15_ChangeResetsPage ==
    [][(SearchChange \/ StatusFilterChange \/ SortClick \/ PageSizeChange)
        => list'.currentPage = 1]_vars

\* the previous-page button was pressed on a later page, and a change has
\* put the list on page 1 before its timer fired
C15_Witness ==
    /\ list # NoList
    /\ list.currentPage = 1
    /\ pendingNav = <<[kind |-> "prev", arg |-> 0]>>

\* the five values the view keeps in localStorage
Prefs(l) == <<l.searchTerm, l.statusFilter, l.sortBy, l.sortOrder, l.pageSize>>

\* C16: at every moment a re-initialisation from localStorage would restore
\* the five values the view has; the tab switch that mounts the view does
\* so, and nothing writes the items while the view is unmounted; an item
\* outside its valid set gives the default.
C16_PreferencesRoundTrip ==
    /\ [](list # NoList => Prefs(MountList(store)) = Prefs(list))
    /\ [][list = NoList => store' = store]_vars
    /\ [][(list = NoList /\ list' # NoList) => list' = MountList(store)]_vars
    /\ [](LET m == MountList(store) IN
            /\ (store.status = NoItem \/ store.status.v \notin StatusFilters)
                => m.statusFilter = "All"
            /\ (store.sortBy = NoItem \/ store.sortBy.v \notin SortKeys)
                => m.sortBy = "score"
            /\ (store.sortOrder = NoItem \/ store.sortOrder.v \notin {"asc", "desc"})
                => m.sortOrder = "desc"
            /\ (store.pageSize = NoItem
                \/ \A p \in PageSizes : store.pageSize.v # toString(p))
                => m.pageSize = 10
            /\ m.pageSize \in PageSizes
            /\ (store.pageSize # NoItem /\ \E p \in PageSizes : store.pageSize.v = toString(p))
                => toString(m.pageSize) = store.pageSize.v)

C16_Witness ==
    /\ list # NoList
    /\ Prefs(list) = << <<"a", "B", "A">>, "Contacted", "company", "asc", 20 >>
    /\ store.pageSize = Item(<<"2", "0">>)
    /\ store.search = Item(<<"a", "B", "A">>)
    /\ list.currentPage = 1
    /\ pendingNav = << >>

\* C18: the page index of the mounted list lies between 1 and the number of
\* pages (1 when there is none).
C18_PageIndexValid ==
    [](list # NoList =>
        /\ 1 <= list.currentPage
        /\ list.currentPage <= (IF totalPages > 1 THEN totalPages ELSE 1))

\* C19: a sort click on the active key keeps the key and flips the
\* direction; on another key it makes that key active, descending.
C19_SortToggle ==
    [][\A field \in SortKeys :
        handleSortChange(field) =>
            /\ list'.sortBy = field
            /\ IF field = list.sortBy
               THEN list'.sortOrder = (IF list.sortOrder = "desc" THEN "asc" ELSE "desc")
               ELSE list'.sortOrder = "desc"]_vars

C19_Witness ==
    /\ list # NoList
    /\ list.sortBy = "company"
    /\ list.sortOrder = "asc"
    /\ store.sortBy = Item("company")
    /\ store.sortOrder = Item("asc")

\* the panel shows lead in Viewing with a fresh buffer and no error
FreshFor(p, lead) ==
    /\ ~p.isEditing
    /\ p.editedLead = lead
    /\ p.errors = NoFieldError

\* C17: a step that changes the selected lead leaves the panel in Viewing
\* with the new lead as its buffer and no error, and the end of a save
\* started for another lead changes neither the selection nor the buffer
\* nor the errors of the panel.
C17_SelectionChangeResets ==
    /\ [][(selectedLead' # selectedLead /\ selectedLead' # NoLead)
            => FreshFor(panel', selectedLead')]_vars
    /\ [][((SaveSucceed \/ SaveFail)
            /\ selectedLead # NoLead
            /\ Head(pendingSave).lead.id # selectedLead.id)
            => /\ selectedLead' = selectedLead
               /\ panel'.editedLead = panel.editedLead
               /\ panel'.errors = panel.errors]_vars

\* C20: a load ends in Ready only with a sequence of leads; a response that
\* is not ok, a body that is no JSON and a body of another shape end in
\* Error with no leads.
C20_LoadValidatesShape ==
    [][(LoadFail \/ LoadMalformed \/ LoadWrongShape)
        => (Error' /\ ~Ready' /\ leads' = << >>)]_vars

\* C21: the selected record is the record of the leads that carries its id.
C21_NoStaleSelection ==
    [](selectedLead # NoLead =>
        \E i \in 1..Len(leads) : leads[i] = selectedLead)

\* C22: no two opportunities stem from the same lead, and there are no more
\* opportunities than leads.
C22_ConvertedAtMostOnce ==
    /\ [](\A i, j \in 1..Len(opportunities) :
            opportunities[i].leadId = opportunities[j].leadId => i = j)
    /\ [](Len(opportunities) <= Len(leads))

====
